---- MODULE Spec2Model ----
(***************************************************************************)
(* Model of the fintracker Portfolio class (src/fin.py, src/portfolioCLI.py)*)
(* as a state machine over the SQLite tables it keeps: holdings,           *)
(* transactions, alerts (price alerts), price_alerts (percentage alerts)   *)
(* and performance.  REAL columns are modelled by integers; timestamps of  *)
(* transactions are left out (no claim reads them).  `last` and `fired`    *)
(* record what the caller of the last operation saw (return, printed       *)
(* error, exception; the alerts reported), which the tables do not keep.   *)
(***************************************************************************)
EXTENDS Integers, Sequences, FiniteSets, TLC

\* ------------------------------------------------------------------ bounds
MaxShares == 2
MaxPrice == 2
MaxTxns == 2
MaxAlerts == 2
MaxPctAlerts == 2
MaxDate == 2

\* ------------------------------------------------------------ input sets
Tickers == {"AAPL", "TSLA"}
\* what a caller may type: ticker.upper() maps it to a key of the tables
InputTickers == {"aapl", "TSLA"}
ShareArgs == (-1)..MaxShares
PriceArgs == 1..MaxPrice
\* a quoted price is positive
QuotePrices == 1..MaxPrice
\* stock.info: the access raises, or 'currentPrice' is missing, or a price
QuoteResults ==
    {[kind |-> "raise", price |-> 0], [kind |-> "missing", price |-> 0]}
        \cup {[kind |-> "price", price |-> p] : p \in QuotePrices}
ThresholdArgs == {1}
PctArgs == {50, 100}
Directions == {"above", "below"}
Dates == 1..MaxDate
\* a store-level failure (sqlite3.Error) inside a with-block: none, or one that
\* strikes after the holdings write, at the transaction INSERT or the commit
Faults == {"none", "insert"}

\* yf.download(tickers, ...)['Adj Close']: a price history, or an exception
DownloadResults == {"ok", "raise"}

\* what the solver and the price history hand to the objective: a candidate
\* weight per ticker, the mean daily return (in percent) and the variance of
\* the daily returns per ticker (covariances between tickers taken as 0)
CandidateWeights == {0, 1}
MeanReturns == {-1, 0, 1}
Variances == {0, 1}
\* risk_free_rate=0.01, in percent
RiskFreeRate == 1
\* trading days in a year
TradingDays == 252

VARIABLES holdings, transactions, alerts, price_alerts, performance, today, last, fired

vars == <<holdings, transactions, alerts, price_alerts, performance, today, last, fired>>

\* ----------------------------------------------------------------- helpers
Upper(t) == IF t = "aapl" THEN "AAPL" ELSE t

Abs(x) == IF x < 0 THEN -x ELSE x

\* a fetch that takes a quote without 'currentPrice' as a price (of 0)
AvailableUnlessRaise(q) == q.kind # "raise"

\* `info = stock.info` did not raise and 'currentPrice' in info
Available(q) == q.kind = "price"

\* what the last check_alerts pass did: the quote each alert's fetch returned
\* (qa for the rows of alerts, qp for the rows of price_alerts), the price
\* alerts it reported, and the percentage alerts it reported with the price
\* each was reported at
NoFired == [price |-> {}, pct |-> <<>>, qa |-> <<>>, qp |-> <<>>]

\* what the caller of the last operation observed: "ok", "error" (a message
\* was printed and the call returned) or "raised" (an exception escaped)
\* `value` is the total track_performance computed (0 for every other call)
Outcome(op, ticker, outcome) ==
    [op |-> op, ticker |-> ticker, outcome |-> outcome, value |-> 0]

\* ------------------------------------------------------------ ledger store
\* INSERT OR REPLACE INTO holdings ... COALESCE((SELECT shares ...) + ?, ?), ?
UpsertHolding(h, ticker, shares, price) ==
    [x \in (DOMAIN h) \cup {ticker} |->
        IF x = ticker
        THEN [shares |-> IF ticker \in DOMAIN h THEN h[ticker].shares + shares ELSE shares,
              purchase_price |-> price]
        ELSE h[x]]

\* a sale that writes the new share count 0 where the DELETE belongs
DeleteHoldingKeepsRow(h, ticker) == [h EXCEPT ![ticker].shares = 0]

\* DELETE FROM holdings WHERE ticker = ?
DeleteHolding(h, ticker) == [x \in (DOMAIN h) \ {ticker} |-> h[x]]

\* a sale that rewrites the whole row, at the price 0 its transaction is logged at
UpdateSharesResetsCost(h, ticker, new_shares) ==
    [h EXCEPT ![ticker] = [shares |-> new_shares, purchase_price |-> 0]]

\* UPDATE holdings SET shares = ? WHERE ticker = ?
UpdateShares(h, ticker, new_shares) == [h EXCEPT ![ticker].shares = new_shares]

\* an id that is not generated from the ids in use
NextIdConstant(t) == 1

\* id INTEGER PRIMARY KEY AUTOINCREMENT: one more than the largest id ever used;
\* rows are never deleted, so that is the largest id in the table
NextId(t) == IF Len(t) = 0 THEN 1 ELSE t[Len(t)].id + 1

\* a log that records the size of every trade, a sale like a purchase
InsertTransactionAbs(t, ticker, shares, price) ==
    Append(t, [id |-> NextId(t), ticker |-> ticker, shares |-> Abs(shares),
               purchase_price |-> price])

\* INSERT INTO transactions (ticker, shares, purchase_price, date)
InsertTransaction(t, ticker, shares, price) ==
    Append(t, [id |-> NextId(t), ticker |-> ticker, shares |-> shares, purchase_price |-> price])

\* a remove_holding without the `shares > current_shares` test
SellsUnchecked(h, ticker, shares) == ticker \in DOMAIN h

\* remove_holding sells when `row` is found and not `shares > current_shares`
Sells(h, ticker, shares) ==
    ticker \in DOMAIN h /\ ~(shares > h[ticker].shares)

\* a connection in autocommit mode: what was written before the failure stays
WithConnNoRollback(pre, steps, fault) ==
    IF fault = "none" THEN steps[2] ELSE steps[1]

\* `with self.conn:` around two writes and a commit.  steps[1] is the store
\* after the holdings write, steps[2] after the transaction insert.  sqlite3
\* opens a transaction before the first write; the with-block commits when the
\* body ends normally and rolls back to `pre` when it raises.
WithConn(pre, steps, fault) ==
    IF fault = "none" THEN steps[2] ELSE pre

Store == [holdings |-> holdings, transactions |-> transactions]

\* the body of add_holding's with-block
AddHoldingWrites(pre, ticker, shares, price, fault) ==
    LET s1 == [pre EXCEPT !.holdings = UpsertHolding(pre.holdings, ticker, shares, price)]
        s2 == [s1 EXCEPT !.transactions = InsertTransaction(s1.transactions, ticker, shares, price)]
    IN WithConn(pre, <<s1, s2>>, fault)

\* the else-branch of remove_holding: the sale itself
RemoveHoldingWrites(pre, ticker, shares, fault) ==
    LET current_shares == pre.holdings[ticker].shares
        new_shares == current_shares - shares
        s1 == [pre EXCEPT !.holdings =
                  IF new_shares = 0
                  THEN DeleteHolding(pre.holdings, ticker)
                  ELSE UpdateShares(pre.holdings, ticker, new_shares)]
        s2 == [s1 EXCEPT !.transactions = InsertTransaction(s1.transactions, ticker, -shares, 0)]
    IN WithConn(pre, <<s1, s2>>, fault)

\* ------------------------------------------------------------------- Init
Init ==
    /\ holdings = <<>>
    /\ transactions = <<>>
    /\ alerts = <<>>
    /\ price_alerts = <<>>
    /\ performance = <<>>
    /\ today = 1
    /\ last = Outcome("init", "", "ok")
    /\ fired = NoFired

\* --------------------------------------------------------- ledger actions
\* fin.py: add_holding(ticker, shares, purchase_price)
AddHolding(tk, shares, purchase_price, fault) ==
    LET ticker == Upper(tk)
        post == AddHoldingWrites(Store, ticker, shares, purchase_price, fault)
    IN /\ fault = "none" => Len(transactions) < MaxTxns
       /\ holdings' = post.holdings
       /\ transactions' = post.transactions
       /\ last' = Outcome("add_holding", ticker,
                          IF fault = "none" THEN "ok" ELSE "raised")
       /\ fired' = NoFired
       /\ UNCHANGED <<alerts, price_alerts, performance, today>>

\* portfolioCLI.py: add_holding(ticker, shares), priced by the quote service
AddHoldingQuoted(tk, shares, q, fault) ==
    LET ticker == Upper(tk)
        post == IF Available(q)
                THEN AddHoldingWrites(Store, ticker, shares, q.price, fault)
                ELSE Store
    IN /\ (Available(q) /\ fault = "none") => Len(transactions) < MaxTxns
       /\ ~Available(q) => fault = "none"
       /\ holdings' = post.holdings
       /\ transactions' = post.transactions
       /\ last' = Outcome("add_holding_quoted", ticker,
                          IF Available(q) /\ fault = "none" THEN "ok" ELSE "error")
       /\ fired' = NoFired
       /\ UNCHANGED <<alerts, price_alerts, performance, today>>

\* remove_holding(ticker, shares), the same in both files
RemoveHolding(tk, shares, fault) ==
    LET ticker == Upper(tk)
        sells == Sells(holdings, ticker, shares)
        post == IF sells THEN RemoveHoldingWrites(Store, ticker, shares, fault) ELSE Store
    IN /\ (sells /\ fault = "none") => Len(transactions) < MaxTxns
       /\ ~sells => fault = "none"
       /\ holdings' = post.holdings
       /\ transactions' = post.transactions
       /\ last' = Outcome("remove_holding", ticker,
                          IF ~sells THEN "error"
                          ELSE IF fault = "none" THEN "ok" ELSE "raised")
       /\ fired' = NoFired
       /\ UNCHANGED <<alerts, price_alerts, performance, today>>


\* ------------------------------------------------------------ alert engine
\* the price alert condition with >= and <= in place of > and <
PriceAlertFiresInclusive(alert, current_price) ==
    \/ alert.direction = "above" /\ current_price >= alert.threshold
    \/ alert.direction = "below" /\ current_price <= alert.threshold

\* (direction == 'above' and current_price > threshold) or
\* (direction == 'below' and current_price < threshold)
PriceAlertFires(alert, current_price) ==
    \/ alert.direction = "above" /\ current_price > alert.threshold
    \/ alert.direction = "below" /\ current_price < alert.threshold

\* change = ((current_price - last_checked_price) / last_checked_price) * 100
\* raises ZeroDivisionError on a baseline of 0
ChangeRaises(last_checked_price) == last_checked_price = 0

\* abs(change) >= percentage_change, for a baseline that is not 0:
\* |p - b| / |b| * 100 >= pc  iff  |p - b| * 100 >= pc * |b|
PctAlertFires(percentage_change, last_checked_price, current_price) ==
    Abs(current_price - last_checked_price) * 100 >= percentage_change * Abs(last_checked_price)

\* UPDATE price_alerts SET last_checked_price = ? WHERE ticker = ?
RearmTicker(tbl, ticker, current_price) ==
    [j \in 1..Len(tbl) |->
        IF tbl[j].ticker = ticker
        THEN [tbl[j] EXCEPT !.last_checked_price = current_price]
        ELSE tbl[j]]

\* the loop with one try around the whole for: the first fetch that raises ends
\* the pass, a quote without 'currentPrice' is passed over
RECURSIVE PctLoopOneTry(_, _, _, _, _)
PctLoopOneTry(rows, tbl, q, i, pct) ==
    IF i > Len(rows) \/ q[i].kind = "raise" THEN [tbl |-> tbl, pct |-> pct]
    ELSE LET r == rows[i]
             hit == /\ Available(q[i])
                    /\ ~ChangeRaises(r.last_checked_price)
                    /\ PctAlertFires(r.percentage_change, r.last_checked_price, q[i].price)
         IN IF hit
            THEN PctLoopOneTry(rows, RearmTicker(tbl, r.ticker, q[i].price), q, i + 1,
                               (i :> q[i].price) @@ pct)
            ELSE PctLoopOneTry(rows, tbl, q, i + 1, pct)

\* a loop that reads each alert's row from the table when its turn comes
RECURSIVE PctLoopRereads(_, _, _, _, _)
PctLoopRereads(rows, tbl, q, i, pct) ==
    IF i > Len(rows) THEN [tbl |-> tbl, pct |-> pct]
    ELSE LET r == tbl[i]
             hit == /\ Available(q[i])
                    /\ ~ChangeRaises(r.last_checked_price)
                    /\ PctAlertFires(r.percentage_change, r.last_checked_price, q[i].price)
         IN IF hit
            THEN PctLoopRereads(rows, RearmTicker(tbl, r.ticker, q[i].price), q, i + 1,
                                (i :> q[i].price) @@ pct)
            ELSE PctLoopRereads(rows, tbl, q, i + 1, pct)

\* the second loop of check_alerts: `rows` is the fetchall() result read before
\* the loop, `tbl` the table as the passes' UPDATEs leave it, q[i] the quote the
\* i-th row's fetch returns, `pct` the alerts reported so far with their prices
RECURSIVE PctLoop(_, _, _, _, _)
PctLoop(rows, tbl, q, i, pct) ==
    IF i > Len(rows) THEN [tbl |-> tbl, pct |-> pct]
    ELSE LET r == rows[i]
             hit == /\ Available(q[i])
                    /\ ~ChangeRaises(r.last_checked_price)
                    /\ PctAlertFires(r.percentage_change, r.last_checked_price, q[i].price)
         IN IF hit
            THEN PctLoop(rows, RearmTicker(tbl, r.ticker, q[i].price), q, i + 1,
                         (i :> q[i].price) @@ pct)
            ELSE PctLoop(rows, tbl, q, i + 1, pct)

\* set_price_alert(ticker, threshold, direction)
SetPriceAlert(tk, threshold, direction) ==
    /\ Len(alerts) < MaxAlerts
    /\ alerts' = Append(alerts, [ticker |-> Upper(tk), threshold |-> threshold,
                                 direction |-> direction])
    /\ last' = Outcome("set_price_alert", Upper(tk), "ok")
    /\ fired' = NoFired
    /\ UNCHANGED <<holdings, transactions, price_alerts, performance, today>>

\* set_percentage_alert(ticker, percentage_change): a raising fetch is printed,
\* a quote without 'currentPrice' is passed over in silence
SetPercentageAlert(tk, percentage_change, q) ==
    /\ Available(q) => Len(price_alerts) < MaxPctAlerts
    /\ price_alerts' =
          IF Available(q)
          THEN Append(price_alerts, [ticker |-> Upper(tk),
                                     percentage_change |-> percentage_change,
                                     last_checked_price |-> q.price])
          ELSE price_alerts
    /\ last' = Outcome("set_percentage_alert", Upper(tk),
                       IF Available(q) THEN "ok"
                       ELSE IF q.kind = "raise" THEN "error" ELSE "silent")
    /\ fired' = NoFired
    /\ UNCHANGED <<holdings, transactions, alerts, performance, today>>

\* check_alerts(): both loops, each row with the quote its own fetch returns
CheckAlerts(qa, qp) ==
    LET run == PctLoop(price_alerts, price_alerts, qp, 1, <<>>)
    IN /\ price_alerts' = run.tbl
       /\ fired' = [price |-> {i \in 1..Len(alerts) :
                                  Available(qa[i]) /\ PriceAlertFires(alerts[i], qa[i].price)},
                    pct |-> run.pct, qa |-> qa, qp |-> qp]
       /\ last' = Outcome("check_alerts", "", "ok")
       /\ UNCHANGED <<holdings, transactions, alerts, performance, today>>

\* ------------------------------------------------------ performance tracker
\* get_current_value(): total over the holdings whose quote is available
RECURSIVE TotalValue(_, _, _)
TotalValue(h, q, todo) ==
    IF todo = {} THEN 0
    ELSE LET t == CHOOSE x \in todo : TRUE
         IN (IF Available(q[t]) THEN q[t].price * h[t].shares ELSE 0)
               + TotalValue(h, q, todo \ {t})

\* a performance table whose date column is not a key
HasSampleNever(perf, date) == FALSE

\* date TEXT PRIMARY KEY: an INSERT conflicts when a row has the date
HasSample(perf, date) == \E i \in 1..Len(perf) : perf[i].date = date

\* track_performance(): a plain INSERT into a table whose primary key is the
\* date; a second row for the date violates the key, the INSERT raises
\* sqlite3.IntegrityError and the with-block rolls back
TrackPerformance(q) ==
    LET total_value == TotalValue(holdings, q, DOMAIN holdings)
        clash == HasSample(performance, today)
    IN /\ performance' = IF clash THEN performance
                         ELSE Append(performance, [date |-> today, value |-> total_value])
       /\ last' = [Outcome("track_performance", "", IF clash THEN "raised" ELSE "ok")
                      EXCEPT !.value = total_value]
       /\ fired' = NoFired
       /\ UNCHANGED <<holdings, transactions, alerts, price_alerts, today>>

\* --------------------------------------------------- valuation, optimizer
\* a valuation that drops the holdings it could not price
GetCurrentValuePrunes(q) ==
    /\ holdings' = [t \in {x \in DOMAIN holdings : Available(q[x])} |-> holdings[t]]
    /\ last' = [Outcome("get_current_value", "", "ok")
                   EXCEPT !.value = TotalValue(holdings, q, DOMAIN holdings)]
    /\ fired' = NoFired
    /\ UNCHANGED <<transactions, alerts, price_alerts, performance, today>>

\* get_current_value() called from the menu: the total is printed
GetCurrentValue(q) ==
    /\ last' = [Outcome("get_current_value", "", "ok")
                   EXCEPT !.value = TotalValue(holdings, q, DOMAIN holdings)]
    /\ fired' = NoFired
    /\ UNCHANGED <<holdings, transactions, alerts, price_alerts, performance, today>>

\* total_cost += shares * purchase_price, for the holdings with a current price
RECURSIVE TotalCost(_, _, _)
TotalCost(h, q, todo) ==
    IF todo = {} THEN 0
    ELSE LET t == CHOOSE x \in todo : TRUE
         IN (IF Available(q[t]) THEN h[t].shares * h[t].purchase_price ELSE 0)
               + TotalCost(h, q, todo \ {t})

\* a calculate_total_return that divides whatever the total cost is
DividesAlways(total_cost) == TRUE

\* `if total_cost > 0:` the branch that divides by total_cost
Divides(total_cost) == total_cost > 0

\* ((total_current_value - total_cost) / total_cost) * 100, in whole percent
\* (rounded down), or 0 when total_cost is not positive; a division by 0
\* would raise ZeroDivisionError inside the try, whose except-branch returns 0
ReturnPct(total_current_value, total_cost) ==
    IF Divides(total_cost) /\ total_cost # 0
    THEN ((total_current_value - total_cost) * 100) \div total_cost
    ELSE 0

\* calculate_total_return(): one try around the whole loop, so the first
\* `stock.info` that raises ends the loop and the except-branch returns 0
TotalReturn(h, q) ==
    IF \E t \in DOMAIN h : q[t].kind = "raise" THEN 0
    ELSE ReturnPct(TotalValue(h, q, DOMAIN h), TotalCost(h, q, DOMAIN h))

\* how calculate_total_return() ends: "error" when a fetch raised,
\* "ZeroDivisionError" when the division was reached with total_cost = 0
\* (both through the except-branch), "ok" otherwise
ReturnOutcome(h, q) ==
    IF \E t \in DOMAIN h : q[t].kind = "raise" THEN "error"
    ELSE IF Divides(TotalCost(h, q, DOMAIN h)) /\ TotalCost(h, q, DOMAIN h) = 0
         THEN "ZeroDivisionError"
         ELSE "ok"

\* calculate_total_return() called from the menu: the return is printed
CalculateTotalReturn(q) ==
    /\ last' = [Outcome("calculate_total_return", "", ReturnOutcome(holdings, q))
                   EXCEPT !.value = TotalReturn(holdings, q)]
    /\ fired' = NoFired
    /\ UNCHANGED <<holdings, transactions, alerts, price_alerts, performance, today>>

\* optimize_portfolio(): the download may raise; with no ticker held
\* 1/len(tickers) raises ZeroDivisionError before the solver is called;
\* otherwise minimize() runs and its result.x and the figures derived from it
\* are printed as the optimized allocation, result.success is never read.
\* `success` is the flag the solver reports.  No table is written.
OptimizePortfolio(download, success) ==
    /\ last' = Outcome("optimize_portfolio", "",
                       IF download = "raise" THEN "raised"
                       ELSE IF DOMAIN holdings = {} THEN "ZeroDivisionError"
                       ELSE "ok")
    /\ fired' = NoFired
    /\ UNCHANGED <<holdings, transactions, alerts, price_alerts, performance, today>>

\* np.sqrt, rounded down to an integer
RECURSIVE SqrtFrom(_, _)
SqrtFrom(n, r) == IF (r + 1) * (r + 1) > n THEN r ELSE SqrtFrom(n, r + 1)

ISqrt(n) == SqrtFrom(n, 0)

RECURSIVE WeightedSum(_, _, _)
WeightedSum(x, y, todo) ==
    IF todo = {} THEN 0
    ELSE LET t == CHOOSE z \in todo : TRUE
         IN x[t] * y[t] + WeightedSum(x, y, todo \ {t})

\* portfolio_performance(weights, mean_returns, cov_matrix):
\*   portfolio_return = np.sum(mean_returns * weights) * 252
\*   portfolio_std_dev = np.sqrt(weights.T . cov_matrix . weights) * np.sqrt(252)
\* with a diagonal cov_matrix, weights.T . cov_matrix . weights is the sum of
\* weight^2 * variance
PortfolioPerformance(weights, mean_returns, variance) ==
    LET squares == [t \in DOMAIN weights |-> weights[t] * weights[t]]
    IN [std_dev |-> ISqrt(WeightedSum(squares, variance, DOMAIN weights) * TradingDays),
        ret |-> WeightedSum(mean_returns, weights, DOMAIN weights) * TradingDays]

\* neg_sharpe_ratio: -(p_ret - risk_free_rate) / p_std_dev, a division of numpy
\* floats with no test of the divisor: by 0 it yields an infinity (nan for
\* 0/0) and a RuntimeWarning, no exception and no other value
NegSharpeRatio(weights, mean_returns, variance) ==
    LET p == PortfolioPerformance(weights, mean_returns, variance)
        numerator == -(p.ret - RiskFreeRate)
    IN IF p.std_dev = 0
       THEN [kind |-> IF numerator = 0 THEN "nan" ELSE "inf", value |-> 0]
       ELSE [kind |-> "finite", value |-> numerator \div p.std_dev]

\* one call of the objective by minimize(), on the held tickers
ObjectiveCall(weights, mean_returns, variance) ==
    LET r == NegSharpeRatio(weights, mean_returns, variance)
    IN /\ DOMAIN holdings # {}
       /\ last' = [Outcome("neg_sharpe_ratio", "", r.kind) EXCEPT !.value = r.value]
       /\ fired' = NoFired
       /\ UNCHANGED <<holdings, transactions, alerts, price_alerts, performance, today>>

\* the calendar date datetime.now() reports moves on
Tick ==
    /\ today < MaxDate
    /\ today' = today + 1
    /\ UNCHANGED <<holdings, transactions, alerts, price_alerts, performance, last, fired>>

\* ------------------------------------------------------- specifications
\* fin.py's Portfolio: purchases at a price the caller states
NextLedger ==
    \/ \E tk \in InputTickers, s \in ShareArgs, p \in PriceArgs, f \in Faults :
           AddHolding(tk, s, p, f)
    \/ \E tk \in InputTickers, s \in ShareArgs, f \in Faults :
           RemoveHolding(tk, s, f)

SpecLedger == Init /\ [][NextLedger]_vars

\* portfolioCLI.py's Portfolio: purchases at the quoted price
NextLedgerCLI ==
    \/ \E tk \in InputTickers, s \in ShareArgs, q \in QuoteResults, f \in Faults :
           AddHoldingQuoted(tk, s, q, f)
    \/ \E tk \in InputTickers, s \in ShareArgs : RemoveHolding(tk, s, "none")

SpecLedgerCLI == Init /\ [][NextLedgerCLI]_vars

\* price alerts alone: set_price_alert and check_alerts
NextPriceAlerts ==
    \/ \E tk \in InputTickers, th \in ThresholdArgs, d \in Directions :
           SetPriceAlert(tk, th, d)
    \/ \E qa \in [1..Len(alerts) -> QuoteResults] : CheckAlerts(qa, <<>>)

SpecPriceAlerts == Init /\ [][NextPriceAlerts]_vars

\* what the fetches of one pass return when the service fails in one way
\* (kind "raise" or "missing") for some alerts and quotes one price to the rest
PassQuotes(kind, price) ==
    {[kind |-> kind, price |-> 0], [kind |-> "price", price |-> price]}

\* both loops of check_alerts in one pass: at most one price alert, percentage
\* alerts of 50%, the service failing for any of them
NextAlertPass ==
    \/ \E d \in Directions : alerts = <<>> /\ SetPriceAlert("TSLA", 1, d)
    \/ \E tk \in InputTickers, p \in QuotePrices :
           SetPercentageAlert(tk, 50, [kind |-> "price", price |-> p])
    \/ \E kind \in {"raise", "missing"}, p \in QuotePrices :
           \E qa \in [1..Len(alerts) -> PassQuotes(kind, p)],
              qp \in [1..Len(price_alerts) -> PassQuotes(kind, p)] : CheckAlerts(qa, qp)

SpecAlertPass == Init /\ [][NextAlertPass]_vars

\* percentage alerts alone: set_percentage_alert and check_alerts
NextPctAlerts ==
    \/ \E tk \in InputTickers, pc \in PctArgs, q \in QuoteResults :
           SetPercentageAlert(tk, pc, q)
    \/ \E qp \in [1..Len(price_alerts) -> QuoteResults] : CheckAlerts(<<>>, qp)

SpecPctAlerts == Init /\ [][NextPctAlerts]_vars

\* one share bought at a time, valued day by day
NextPerf ==
    \/ \E tk \in InputTickers, p \in PriceArgs : AddHolding(tk, 1, p, "none")
    \/ \E q \in [DOMAIN holdings -> QuoteResults] : TrackPerformance(q)
    \/ Tick

SpecPerf == Init /\ [][NextPerf]_vars

\* one ticker bought a share at a time, sampled any number of times a day
NextSamples ==
    \/ AddHolding("TSLA", 1, 1, "none")
    \/ \E q \in [DOMAIN holdings -> QuoteResults] : TrackPerformance(q)
    \/ Tick

SpecSamples == Init /\ [][NextSamples]_vars

\* portfolioCLI.py's menu: positions bought at the quote and sold, valued,
\* their return computed, their allocation optimized
NextAnalytics ==
    \/ \E tk \in InputTickers, s \in 1..MaxShares, q \in QuoteResults :
           AddHoldingQuoted(tk, s, q, "none")
    \/ \E tk \in InputTickers, s \in 1..MaxShares : RemoveHolding(tk, s, "none")
    \/ \E q \in [DOMAIN holdings -> QuoteResults] : GetCurrentValue(q)
    \/ \E q \in [DOMAIN holdings -> QuoteResults] : CalculateTotalReturn(q)
    \/ \E d \in DownloadResults, ok \in BOOLEAN : OptimizePortfolio(d, ok)

SpecAnalytics == Init /\ [][NextAnalytics]_vars

\* single shares bought at the quote and sold, and the return computed
NextReturn ==
    \/ \E tk \in InputTickers, q \in QuoteResults : AddHoldingQuoted(tk, 1, q, "none")
    \/ \E tk \in InputTickers : RemoveHolding(tk, 1, "none")
    \/ \E q \in [DOMAIN holdings -> QuoteResults] : CalculateTotalReturn(q)

SpecReturn == Init /\ [][NextReturn]_vars

\* single shares bought and sold, and the solver evaluating its objective on
\* candidate weights for the tickers held
NextObjective ==
    \/ \E tk \in InputTickers, q \in QuoteResults : AddHoldingQuoted(tk, 1, q, "none")
    \/ \E tk \in InputTickers : RemoveHolding(tk, 1, "none")
    \/ \E w \in [DOMAIN holdings -> CandidateWeights],
          m \in [DOMAIN holdings -> MeanReturns],
          v \in [DOMAIN holdings -> Variances] : ObjectiveCall(w, m, v)

SpecObjective == Init /\ [][NextObjective]_vars

\* a small portfolio under every operation that is not a purchase or a sale:
\* single shares traded, one alert of each kind, one quote for the whole call
NextFrame ==
    \/ \E tk \in InputTickers : AddHolding(tk, 1, 1, "none")
    \/ \E tk \in InputTickers : RemoveHolding(tk, 1, "none")
    \/ alerts = <<>> /\ SetPriceAlert("TSLA", 1, "above")
    \/ \E q \in QuoteResults : price_alerts = <<>> /\ SetPercentageAlert("TSLA", 50, q)
    \/ \E q \in QuoteResults :
           CheckAlerts([i \in 1..Len(alerts) |-> q], [i \in 1..Len(price_alerts) |-> q])
    \/ \E q \in QuoteResults : GetCurrentValue([t \in DOMAIN holdings |-> q])
    \/ \E q \in QuoteResults : TrackPerformance([t \in DOMAIN holdings |-> q])
    \/ \E d \in DownloadResults, ok \in BOOLEAN : OptimizePortfolio(d, ok)

SpecFrame == Init /\ [][NextFrame]_vars

\* every operation of both programs on one store
Next ==
    \/ NextLedger
    \/ NextLedgerCLI
    \/ \E tk \in InputTickers, th \in ThresholdArgs, d \in Directions :
           SetPriceAlert(tk, th, d)
    \/ \E tk \in InputTickers, pc \in PctArgs, q \in QuoteResults :
           SetPercentageAlert(tk, pc, q)
    \/ \E qa \in [1..Len(alerts) -> QuoteResults],
          qp \in [1..Len(price_alerts) -> QuoteResults] : CheckAlerts(qa, qp)
    \/ \E q \in [DOMAIN holdings -> QuoteResults] : TrackPerformance(q)
    \/ \E q \in [DOMAIN holdings -> QuoteResults] : GetCurrentValue(q)
    \/ \E q \in [DOMAIN holdings -> QuoteResults] : CalculateTotalReturn(q)
    \/ \E d \in DownloadResults, ok \in BOOLEAN : OptimizePortfolio(d, ok)
    \/ Tick

Spec == Init /\ [][Next]_vars

\* ------------------------------------------------------- ledger properties
HeldShares(h, t) == IF t \in DOMAIN h THEN h[t].shares ELSE 0

LedgerUnchanged == holdings' = holdings /\ transactions' = transactions

\* rows of the log written by add_holding: a sale is logged at price 0 and
\* PriceArgs has no 0, so under SpecLedger the price tells the two apart
IsPurchase(x) == x.purchase_price # 0

RECURSIVE SumShares(_, _, _)
SumShares(t, ticker, n) ==
    IF n = 0 THEN 0
    ELSE SumShares(t, ticker, n - 1) + (IF t[n].ticker = ticker THEN t[n].shares ELSE 0)

RECURSIVE SumCost(_, _, _)
SumCost(t, ticker, n) ==
    IF n = 0 THEN 0
    ELSE SumCost(t, ticker, n - 1)
           + (IF t[n].ticker = ticker THEN t[n].shares * t[n].purchase_price ELSE 0)

OnlyPositivePurchases(ticker) ==
    \A i \in 1..Len(transactions) :
        transactions[i].ticker = ticker =>
            IsPurchase(transactions[i]) /\ transactions[i].shares > 0

\* C1: after any sequence of add_position calls with positive shares on a fresh
\* ticker, the stored average cost is the share-weighted mean of the purchase
\* prices (average * total shares = total cost) and shares is the sum of the
\* share counts.
C1_AverageCostIsWeightedMean ==
    \A t \in DOMAIN holdings :
        OnlyPositivePurchases(t) =>
            /\ holdings[t].shares = SumShares(transactions, t, Len(transactions))
            /\ holdings[t].purchase_price * SumShares(transactions, t, Len(transactions))
                   = SumCost(transactions, t, Len(transactions))

\* C2: a ticker has a row in holdings only with shares > 0 (a ticker without a
\* row holds no shares by construction), whatever share arguments were passed.
C2_HeldIffPositive ==
    \A t \in DOMAIN holdings : holdings[t].shares > 0

\* C3: remove_position of more shares than held, or of an absent ticker,
\* reports an error and leaves holdings and the transaction log as they were.
C3_OversellIsNoOp ==
    [][last'.op = "remove_holding" =>
          \A tk \in InputTickers, n \in ShareArgs :
              (/\ Upper(tk) = last'.ticker
               /\ \/ Upper(tk) \notin DOMAIN holdings
                  \/ n > holdings[Upper(tk)].shares
               /\ \E f \in Faults : RemoveHolding(tk, n, f))
                 => last'.outcome = "error" /\ LedgerUnchanged]_vars

C3_Witness ==
    /\ last.op = "remove_holding"
    /\ last.outcome = "error"
    /\ last.ticker \in DOMAIN holdings
    /\ holdings[last.ticker].shares > 0

\* C4: add_position with shares <= 0 fails and changes neither the holdings
\* nor the transaction log.
C4_NonPositiveAddRejected ==
    [][\A tk \in InputTickers, s \in ShareArgs, p \in PriceArgs, f \in Faults :
          (AddHolding(tk, s, p, f) /\ s <= 0)
             => last'.outcome # "ok" /\ LedgerUnchanged]_vars

\* C5: remove_position with shares <= 0 on a held ticker is rejected: the
\* holding keeps its shares and no transaction is appended.
C5_NonPositiveRemoveRejected ==
    [][\A tk \in InputTickers, n \in ShareArgs, f \in Faults :
          (/\ RemoveHolding(tk, n, f)
           /\ n <= 0
           /\ Upper(tk) \in DOMAIN holdings
           /\ holdings[Upper(tk)].shares > 0)
             => last'.outcome = "error" /\ LedgerUnchanged]_vars

\* C10: every step of add_position or remove_position, failing or not, either
\* leaves holdings and the log untouched or commits both writes: exactly one
\* transaction is appended and the shares held of its ticker, and of no other,
\* change by its delta.
C10_MutationAtomic ==
    [][\/ LedgerUnchanged
       \/ /\ Len(transactions') = Len(transactions) + 1
          /\ SubSeq(transactions', 1, Len(transactions)) = transactions
          /\ LET x == transactions'[Len(transactions')]
             IN \A t \in Tickers :
                   HeldShares(holdings', t) =
                       HeldShares(holdings, t) + (IF t = x.ticker THEN x.shares ELSE 0)]_vars

C10_Witness ==
    /\ last.op \in {"add_holding", "remove_holding"}
    /\ last.outcome = "raised"
    /\ last.ticker \in DOMAIN holdings
    /\ Len(transactions) > 0

\* C11: remove_position(ticker, n) with n equal to the shares held, committed
\* without a store failure, deletes the ticker's row from holdings and appends
\* exactly one transaction, for that ticker, with shares_delta = -n.
C11_FullSaleRemovesRow ==
    [][(last'.op = "remove_holding" /\ last'.outcome = "ok") =>
          \A tk \in InputTickers, n \in ShareArgs :
              (/\ Upper(tk) = last'.ticker
               /\ Upper(tk) \in DOMAIN holdings
               /\ n = holdings[Upper(tk)].shares
               /\ RemoveHolding(tk, n, "none"))
                 => /\ Upper(tk) \notin DOMAIN holdings'
                    /\ Len(transactions') = Len(transactions) + 1
                    /\ SubSeq(transactions', 1, Len(transactions)) = transactions
                    /\ transactions'[Len(transactions')].ticker = Upper(tk)
                    /\ transactions'[Len(transactions')].shares = -n]_vars

\* a position bought and then sold in full
C11_Witness ==
    /\ last.op = "remove_holding"
    /\ last.outcome = "ok"
    /\ last.ticker \notin DOMAIN holdings
    /\ Len(transactions) >= 2
    /\ transactions[Len(transactions)].ticker = last.ticker
    /\ transactions[Len(transactions)].shares < 0

C13_LogAppendOnly ==
    [][/\ Len(transactions') >= Len(transactions)
       /\ SubSeq(transactions', 1, Len(transactions)) = transactions
       /\ \A j \in (Len(transactions) + 1)..Len(transactions') :
             \A i \in 1..Len(transactions) :
                 transactions'[j].id > transactions[i].id]_vars

\* a second row appended to a log that has one
C13_Witness ==
    /\ Len(transactions) >= 2
    /\ transactions[2].id > transactions[1].id
    /\ last.outcome = "ok"

\* C23: in every reachable state the shares held of each ticker (0 when it has
\* no row) equal the sum of the share deltas of all its transactions: every
\* committed purchase or sale logged exactly the change it made.
C23_SharesEqualSumOfDeltas ==
    \A t \in Tickers :
        HeldShares(holdings, t) = SumShares(transactions, t, Len(transactions))

\* two shares bought, one of them sold
C23_Witness ==
    \E t \in Tickers :
        /\ Len(transactions) = 2
        /\ transactions[1].ticker = t /\ transactions[1].shares = 2
        /\ transactions[2].ticker = t /\ transactions[2].shares = -1
        /\ HeldShares(holdings, t) = 1

\* C25: portfolioCLI.py's add_holding writes nothing when the fetch raises or
\* returns no current price (holdings and log unchanged); when it commits with
\* a fetched price, the holding's row and the appended transaction both carry
\* that price.
C25_QuotedAddNeedsPrice ==
    [][last'.op = "add_holding_quoted" =>
          /\ \/ LedgerUnchanged
             \/ \A tk \in InputTickers, s \in ShareArgs, q \in QuoteResults :
                    (q.kind # "price" /\ Upper(tk) = last'.ticker)
                       => ~AddHoldingQuoted(tk, s, q, "none")
          /\ last'.outcome = "ok" =>
                \A tk \in InputTickers, s \in ShareArgs, p \in QuotePrices :
                    \/ Upper(tk) # last'.ticker
                    \/ /\ Len(transactions') = Len(transactions) + 1
                       /\ transactions'[Len(transactions')].ticker = Upper(tk)
                       /\ transactions'[Len(transactions')].purchase_price = p
                       /\ holdings'[Upper(tk)].purchase_price = p
                    \/ ~AddHoldingQuoted(tk, s, [kind |-> "price", price |-> p], "none")]_vars

\* a position bought at the quote, then an add that found no price
C25_Witness ==
    /\ last.op = "add_holding_quoted"
    /\ last.outcome = "error"
    /\ Len(transactions) = 1
    /\ transactions[1].ticker \in DOMAIN holdings
    /\ holdings[transactions[1].ticker].purchase_price = transactions[1].purchase_price
    /\ transactions[1].purchase_price > 0

\* --------------------------------------------------- valuation properties
\* the held tickers whose quote is available
Priced(h, q) == {t \in DOMAIN h : Available(q[t])}

RECURSIVE MarketValueOf(_, _, _)
MarketValueOf(h, q, S) ==
    IF S = {} THEN 0
    ELSE LET t == CHOOSE x \in S : TRUE
         IN h[t].shares * q[t].price + MarketValueOf(h, q, S \ {t})

RECURSIVE CostBasisOf(_, _)
CostBasisOf(h, S) ==
    IF S = {} THEN 0
    ELSE LET t == CHOOSE x \in S : TRUE
         IN h[t].shares * h[t].purchase_price + CostBasisOf(h, S \ {t})

\* C17: whichever held tickers' quotes fail (the fetch raises or returns no
\* current price), the valuation is the one of the remaining tickers: the total
\* market value get_current_value reports is their market value, and the
\* percentage change calculate_total_return reports is the change of their
\* market value against their cost basis (0 for a cost basis of 0).
C17_QuoteFailureSkipsOneTicker ==
    [][/\ last'.op = "get_current_value" =>
             \A q \in [DOMAIN holdings -> QuoteResults] :
                 GetCurrentValue(q) =>
                     last'.value = MarketValueOf(holdings, q, Priced(holdings, q))
       /\ last'.op = "calculate_total_return" =>
             \A q \in [DOMAIN holdings -> QuoteResults] :
                 CalculateTotalReturn(q) =>
                     LET cost == CostBasisOf(holdings, Priced(holdings, q))
                         value == MarketValueOf(holdings, q, Priced(holdings, q))
                     IN last'.value =
                           IF cost > 0 THEN ((value - cost) * 100) \div cost ELSE 0]_vars

\* C21: calculate_total_return reports 0 whenever the cost basis of the priced
\* holdings is 0 (no holding at all, or none with a quote), and it gets there
\* without dividing by zero.
C21_ZeroCostBasisGivesZero ==
    [][last'.op = "calculate_total_return" =>
          \A q \in [DOMAIN holdings -> QuoteResults] :
              (/\ CostBasisOf(holdings, Priced(holdings, q)) = 0
               /\ CalculateTotalReturn(q))
                 => last'.value = 0 /\ last'.outcome # "ZeroDivisionError"]_vars

\* the return of a portfolio emptied by a sale
C21_Witness ==
    /\ last.op = "calculate_total_return"
    /\ last.outcome = "ok"
    /\ last.value = 0
    /\ DOMAIN holdings = {}
    /\ Len(transactions) >= 2

\* C18: a step of check_alerts, get_current_value, track_performance,
\* set_price_alert, set_percentage_alert or optimize_portfolio, whether it
\* succeeds or fails, leaves holdings and the transaction log as they were.
C18_OnlyLedgerOpsChangeLedger ==
    [][last'.op \in {"check_alerts", "get_current_value", "track_performance",
                     "set_price_alert", "set_percentage_alert", "optimize_portfolio"}
          => LedgerUnchanged]_vars

\* a held position, an alert of each kind and a sample on file, and an
\* optimizer run that printed its result
C18_Witness ==
    /\ last.op = "optimize_portfolio"
    /\ last.outcome = "ok"
    /\ DOMAIN holdings # {}
    /\ Len(transactions) > 0
    /\ Len(alerts) > 0
    /\ Len(price_alerts) > 0
    /\ Len(performance) > 0

\* -------------------------------------------------- optimizer properties
\* C19: optimize_portfolio with no holdings fails with InsufficientHistory:
\* not with a division fault or another exception, and not with a result.
C19_EmptyHoldingsInsufficientHistory ==
    [][(last'.op = "optimize_portfolio" /\ DOMAIN holdings = {})
          => last'.outcome = "InsufficientHistory"]_vars

\* C22: the objective called on candidate weights whose portfolio volatility
\* is 0 returns a finite (penalty) value: no infinity, no nan.
C22_ZeroVolatilityPenalty ==
    [][last'.op = "neg_sharpe_ratio" =>
          \A w \in [DOMAIN holdings -> CandidateWeights],
             m \in [DOMAIN holdings -> MeanReturns],
             v \in [DOMAIN holdings -> Variances] :
              (/\ PortfolioPerformance(w, m, v).std_dev = 0
               /\ ObjectiveCall(w, m, v))
                 => last'.outcome = "finite"]_vars

\* C20: when the solver is reached and reports failure, optimize_portfolio
\* fails with OptimizationDidNotConverge and prints no allocation.
C20_SolverFailureNotReported ==
    [][last'.op = "optimize_portfolio" =>
          \A d \in DownloadResults, ok \in BOOLEAN :
              (/\ OptimizePortfolio(d, ok)
               /\ d = "ok"
               /\ DOMAIN holdings # {}
               /\ ~ok)
                 => last'.outcome = "OptimizationDidNotConverge"]_vars

\* ----------------------------------------------------- tracker properties
\* C6: track_performance on a date that already has a sample, with a total that
\* differs from the stored one, completes and leaves the date's sample equal
\* to the total this second call computed.
C6_SecondSnapshotOverwrites ==
    [][(/\ last'.op = "track_performance"
        /\ \E i \in 1..Len(performance) :
              performance[i].date = today /\ performance[i].value # last'.value)
          => /\ last'.outcome = "ok"
             /\ Len(performance') = Len(performance)
             /\ \A i \in 1..Len(performance) :
                   /\ performance'[i].date = performance[i].date
                   /\ performance'[i].date = today => performance'[i].value = last'.value]_vars

\* C14: whatever track_performance calls were made, on whatever dates, the
\* performance table holds at most one sample for each calendar date.
C14_OneSamplePerDate ==
    \A i, j \in 1..Len(performance) :
        performance[i].date = performance[j].date => i = j

\* a date sampled, the next date sampled, and one more call on that date
C14_Witness ==
    /\ last.op = "track_performance"
    /\ last.outcome = "raised"
    /\ Len(performance) >= 2
    /\ HasSample(performance, today)

\* ------------------------------------------------------- alert properties
\* C7: in a check_alerts pass the baseline of a percentage alert changes only
\* if that alert's own condition abs(change) >= percentage_change held in the
\* pass, i.e. only if the pass reported that alert.
C7_RearmOnlyOwnTrigger ==
    [][last'.op = "check_alerts" =>
          \A i \in 1..Len(price_alerts) :
              price_alerts'[i].last_checked_price # price_alerts[i].last_checked_price
                 => i \in DOMAIN fired'.pct]_vars

\* C8: a percentage alert with percentage_change > 0 that a pass reports at
\* price p has baseline p after the pass, and the pass that follows
\* immediately, fetching the same price p for it, does not report it again.
C8_RearmedAlertDoesNotRefire ==
    [][/\ last'.op = "check_alerts" =>
             \A i \in DOMAIN fired'.pct :
                 price_alerts'[i].percentage_change > 0
                    => price_alerts'[i].last_checked_price = fired'.pct[i]
       /\ (last.op = "check_alerts" /\ last'.op = "check_alerts") =>
             \A i \in DOMAIN fired.pct :
                 (/\ price_alerts[i].percentage_change > 0
                  /\ Available(fired'.qp[i])
                  /\ fired'.qp[i].price = fired.pct[i])
                    => i \notin DOMAIN fired'.pct]_vars

\* C15: set_percentage_alert adds an alert exactly when the price fetch
\* succeeds: with a price it appends one alert whose baseline is that price;
\* when the fetch raises or returns no current price it adds no row and the
\* failure is reported to the caller.
C15_PctAlertIffQuote ==
    [][last'.op = "set_percentage_alert" =>
          \A tk \in InputTickers, pc \in PctArgs, q \in QuoteResults :
              (Upper(tk) = last'.ticker /\ SetPercentageAlert(tk, pc, q))
                 => IF Available(q)
                    THEN /\ last'.outcome = "ok"
                         /\ price_alerts' =
                               Append(price_alerts, [ticker |-> Upper(tk),
                                                     percentage_change |-> pc,
                                                     last_checked_price |-> q.price])
                    ELSE /\ last'.outcome = "error"
                         /\ price_alerts' = price_alerts]_vars

\* C16: a check_alerts pass completes without raising, reports no alert whose
\* quote failed (the fetch raised or returned no current price), and evaluates
\* every other alert, price or percentage, as if no fetch had failed: it is
\* reported exactly when its condition holds for its own row and quote.
C16_QuoteFailureSkipsOneAlert ==
    [][last'.op = "check_alerts" =>
          /\ last'.outcome = "ok"
          /\ \A i \in 1..Len(alerts) :
                i \in fired'.price <=>
                    /\ Available(fired'.qa[i])
                    /\ PriceAlertFires(alerts[i], fired'.qa[i].price)
          /\ \A i \in 1..Len(price_alerts) :
                i \in DOMAIN fired'.pct <=>
                    /\ Available(fired'.qp[i])
                    /\ PctAlertFires(price_alerts[i].percentage_change,
                                     price_alerts[i].last_checked_price,
                                     fired'.qp[i].price)]_vars

\* a pass in which the price alert's fetch and a percentage alert's fetch
\* failed and a percentage alert later in the table was reported
C16_Witness ==
    /\ last.op = "check_alerts"
    /\ Len(alerts) = 1
    /\ ~Available(fired.qa[1])
    /\ \E i, j \in 1..Len(price_alerts) :
          /\ i < j
          /\ fired.qp[i].kind = "raise"
          /\ j \in DOMAIN fired.pct

\* C24: when a check_alerts pass reports a percentage alert (and re-arms its
\* ticker), a later alert of the same ticker with an available quote is still
\* judged against the baseline it had when the pass started: it is reported in
\* that pass exactly when its condition holds for that baseline.
C24_PassUsesStartBaseline ==
    [][last'.op = "check_alerts" =>
          \A i, j \in 1..Len(price_alerts) :
              (/\ i < j
               /\ price_alerts[i].ticker = price_alerts[j].ticker
               /\ i \in DOMAIN fired'.pct
               /\ Available(fired'.qp[j]))
                 => (j \in DOMAIN fired'.pct <=>
                        PctAlertFires(price_alerts[j].percentage_change,
                                      price_alerts[j].last_checked_price,
                                      fired'.qp[j].price))]_vars

\* two alerts of one ticker reported in one pass at the same price: the second
\* was judged against its old baseline, not the one the first had just written
C24_Witness ==
    /\ last.op = "check_alerts"
    /\ \E i, j \in DOMAIN fired.pct :
          /\ i < j
          /\ price_alerts[i].ticker = price_alerts[j].ticker
          /\ fired.pct[j] = fired.pct[i]

====
